---------------------------- MODULE Spec2Model ----------------------------
(***************************************************************************)
(* Model of k8s-wait-full (src/main.rs): resolution of the resource type   *)
(* from the discovery catalog (Args::filter_resource, main), the           *)
(* structural matcher (match_state) and the watch loop                     *)
(* (watch_for_condition_met) raced against the optional timeout (main).    *)
(***************************************************************************)
EXTENDS Integers, Sequences, FiniteSets, TLC

(***************************************************************************)
(* Bounds of the model.                                                    *)
(***************************************************************************)
\* largest filter tree (number of nodes) given to match_state on its own
MaxFilterNodes == 4
\* largest state tree (number of nodes) given to match_state on its own
MaxStateNodes == 3
\* number of items the watcher stream yields in one run
MaxEvents == 3
\* number of objects in one Event::Restarted
MaxRestarted == 2

(***************************************************************************)
(* Option<T> and Result<T, E>.                                             *)
(***************************************************************************)
None == {}
Some(x) == {x}
Unwrap(o) == CHOOSE x \in o : TRUE
Ok(x) == <<"Ok", x>>
Err(e) == <<"Err", e>>
IsOk(r) == r[1] = "Ok"

(***************************************************************************)
(* serde_yaml::Value: a tagged tree.  A mapping is a function from its     *)
(* keys to values, a sequence is a tuple of values.                        *)
(***************************************************************************)
Num(n) == [t |-> "num", v |-> n]
Str(s) == [t |-> "str", v |-> s]
Mapping(f) == [t |-> "map", v |-> f]
Sequence(s) == [t |-> "seq", v |-> s]

Keys == {"metadata", "status"}
Scalars == {Num(1), Num(9), Str("1")}

RECURSIVE TreesOfSize(_), SequencesOfSize(_), MappingsOfSize(_, _)
\* tuples of trees with n nodes in total
SequencesOfSize(n) ==
    IF n = 0 THEN {<< >>}
    ELSE UNION {{<<h>> \o tl : h \in TreesOfSize(k), tl \in SequencesOfSize(n - k)} : k \in 1..n}
\* functions from a subset of K to trees with n nodes in total
MappingsOfSize(K, n) ==
    IF K = {} THEN (IF n = 0 THEN {<< >>} ELSE {})
    ELSE LET k == CHOOSE x \in K : TRUE
         IN  MappingsOfSize(K \ {k}, n)
             \cup UNION {{(k :> c) @@ r : c \in TreesOfSize(j), r \in MappingsOfSize(K \ {k}, n - j)} : j \in 1..n}
\* the values with exactly n nodes
TreesOfSize(n) ==
    IF n <= 0 THEN {}
    ELSE (IF n = 1 THEN Scalars ELSE {})
         \cup {Mapping(f) : f \in MappingsOfSize(Keys, n - 1)}
         \cup {Sequence(s) : s \in SequencesOfSize(n - 1)}
Values(n) == UNION {TreesOfSize(k) : k \in 1..n}

(***************************************************************************)
(* serde_yaml::to_value on a Value: the tree is rebuilt node by node.      *)
(***************************************************************************)
RECURSIVE to_value(_)

\* a serialization that writes every number as a string
to_value_stringly(value) ==
    IF value.t = "map" THEN Mapping([k \in DOMAIN value.v |-> to_value(value.v[k])])
    ELSE IF value.t = "seq" THEN Sequence([i \in DOMAIN value.v |-> to_value(value.v[i])])
    ELSE IF value.t = "num" THEN Str(ToString(value.v))
    ELSE Str(value.v)

to_value(value) ==
    IF value.t = "map" THEN Mapping([k \in DOMAIN value.v |-> to_value(value.v[k])])
    ELSE IF value.t = "seq" THEN Sequence([i \in DOMAIN value.v |-> to_value(value.v[i])])
    ELSE IF value.t = "num" THEN Num(value.v)
    ELSE Str(value.v)

(***************************************************************************)
(* match_state (main.rs:110-134).                                          *)
(***************************************************************************)
RECURSIVE match_state(_, _)

\* a matcher that asks a mapping for exactly the keys of the filter
match_state_same_keys(filter, state) ==
    LET serialized == to_value(state)
    IN  IF filter.t = "map" /\ serialized.t = "map"
        THEN /\ DOMAIN filter.v = DOMAIN serialized.v
             /\ \A k \in DOMAIN filter.v : match_state(filter.v[k], serialized.v[k])
        ELSE IF filter.t = "seq" /\ serialized.t = "seq"
        THEN \A i \in DOMAIN filter.v : \A j \in DOMAIN serialized.v :
                match_state(filter.v[i], serialized.v[j])
        ELSE filter = serialized

\* a matcher that asks each element of a filter sequence for some element
\* of the state that matches it
match_state_some_element(filter, state) ==
    LET serialized == to_value(state)
    IN  IF filter.t = "map" /\ serialized.t = "map"
        THEN \A k \in DOMAIN filter.v :
                /\ k \in DOMAIN serialized.v
                /\ match_state(filter.v[k], serialized.v[k])
        ELSE IF filter.t = "seq" /\ serialized.t = "seq"
        THEN \A i \in DOMAIN filter.v : \E j \in DOMAIN serialized.v :
                match_state(filter.v[i], serialized.v[j])
        ELSE filter = serialized

\* a matcher that compares two sequences position by position
match_state_by_position(filter, state) ==
    LET serialized == to_value(state)
    IN  IF filter.t = "map" /\ serialized.t = "map"
        THEN \A k \in DOMAIN filter.v :
                /\ k \in DOMAIN serialized.v
                /\ match_state(filter.v[k], serialized.v[k])
        ELSE IF filter.t = "seq" /\ serialized.t = "seq"
        THEN /\ Len(filter.v) = Len(serialized.v)
             /\ \A i \in DOMAIN filter.v : match_state(filter.v[i], serialized.v[i])
        ELSE filter = serialized

\* a matcher that asks a mapping for some key of the filter, not for all
match_state_some_key(filter, state) ==
    LET serialized == to_value(state)
    IN  IF filter.t = "map" /\ serialized.t = "map"
        THEN \E k \in DOMAIN filter.v :
                /\ k \in DOMAIN serialized.v
                /\ match_state(filter.v[k], serialized.v[k])
        ELSE IF filter.t = "seq" /\ serialized.t = "seq"
        THEN \A i \in DOMAIN filter.v : \A j \in DOMAIN serialized.v :
                match_state(filter.v[i], serialized.v[j])
        ELSE filter = serialized

match_state(filter, state) ==
    LET serialized == to_value(state)
    IN  IF filter.t = "map" /\ serialized.t = "map"
        THEN \A k \in DOMAIN filter.v :
                /\ k \in DOMAIN serialized.v
                /\ match_state(filter.v[k], serialized.v[k])
        ELSE IF filter.t = "seq" /\ serialized.t = "seq"
        THEN \A i \in DOMAIN filter.v : \A j \in DOMAIN serialized.v :
                match_state(filter.v[i], serialized.v[j])
        ELSE filter = serialized

(***************************************************************************)
(* kube::api::ApiResource with its ApiCapabilities, as discovery returns   *)
(* them, and the resources the cluster may serve.                          *)
(***************************************************************************)
ApiResource(group, version, api_version, kind, plural, scope) ==
    [group |-> group, version |-> version, api_version |-> api_version,
     kind |-> kind, plural |-> plural, scope |-> scope]

AllResources ==
    << ApiResource("", "v1", "v1", "Pod", "pods", "Namespaced"),
       ApiResource("", "v1", "v1", "Event", "events", "Namespaced"),
       ApiResource("events.k8s.io", "v1", "events.k8s.io/v1", "Event", "events", "Namespaced"),
       ApiResource("", "v1", "v1", "Namespace", "namespaces", "Cluster") >>

RECURSIVE SubSequences(_)
\* the sequences obtained from s by leaving elements out
SubSequences(s) ==
    IF s = << >> THEN {<< >>}
    ELSE LET rest == SubSequences(Tail(s))
         IN  rest \cup {<<Head(s)>> \o r : r \in rest}

Catalogs == SubSequences(AllResources)

(***************************************************************************)
(* struct Args (main.rs:29-65).  The name and the namespace are fixed.     *)
(***************************************************************************)
ResourceName == "web"

ArgsOf(kinds, groups, group_versions, api_versions, plurals, timeouts) ==
    [kind : kinds, name : {ResourceName}, namespace : {None},
     group : groups, group_version : group_versions,
     api_version : api_versions, plural : plurals, timeout : timeouts]

OptionOf(S) == {None} \cup {Some(x) : x \in S}

\* the command lines of a whole run of main
MainArgs ==
    ArgsOf({"Pod", "Event", "Job"}, {None}, {None}, {None}, {None}, OptionOf({30}))

\* the command lines resolution is examined on
ResolveArgs ==
    ArgsOf({"Pod", "Event", "Job"}, OptionOf({"", "events.k8s.io"}),
           OptionOf({"v1", "v2"}), OptionOf({"v1", "events.k8s.io/v1"}),
           OptionOf({"pods", "events", "v1"}), OptionOf({30}))

(***************************************************************************)
(* Args::filter_resource (main.rs:68-89).                                  *)
(***************************************************************************)
\* a filter in which a field the user did not set rejects: unwrap_or(false)
filter_resource_unset_rejects(self, api_resource) ==
    /\ (self.group # None /\ Unwrap(self.group) = api_resource.group)
    /\ (self.group_version # None /\ Unwrap(self.group_version) = api_resource.version)
    /\ (self.api_version # None /\ Unwrap(self.api_version) = api_resource.api_version)
    /\ self.kind = api_resource.kind
    /\ (self.plural # None /\ Unwrap(self.plural) = api_resource.api_version)

filter_resource(self, api_resource) ==
    /\ (self.group # None => Unwrap(self.group) = api_resource.group)
    /\ (self.group_version # None => Unwrap(self.group_version) = api_resource.version)
    /\ (self.api_version # None => Unwrap(self.api_version) = api_resource.api_version)
    /\ self.kind = api_resource.kind
    /\ (self.plural # None => Unwrap(self.plural) = api_resource.api_version)

RECURSIVE Filter(_, _)
\* Iterator::filter(..).collect::<Vec<_>>() (main.rs:194-195)
Filter(s, self) ==
    IF s = << >> THEN << >>
    ELSE IF filter_resource(self, Head(s)) THEN <<Head(s)>> \o Filter(Tail(s), self)
    ELSE Filter(Tail(s), self)

(***************************************************************************)
(* kube::api::DynamicObject and its serialization by serde_yaml::to_value: *)
(* the flattened TypeMeta, the metadata and the flattened data.            *)
(***************************************************************************)
DynamicObject(api_resource, name, data) ==
    [types |-> [apiVersion |-> api_resource.api_version, kind |-> api_resource.kind],
     metadata |-> [name |-> name],
     data |-> data]

object_to_value(object) ==
    Mapping(("apiVersion" :> Str(object.types.apiVersion))
            @@ ("kind" :> Str(object.types.kind))
            @@ ("metadata" :> Mapping("name" :> Str(object.metadata.name)))
            @@ [k \in DOMAIN object.data |-> to_value(object.data[k])])

\* the data of the objects the cluster may hold under the watched name
ObjectData == {("status" :> Num(1)), ("status" :> Num(9))}

Objects(resource, name) == {DynamicObject(resource, name, d) : d \in ObjectData}

(***************************************************************************)
(* The items of the watcher stream: Result<watcher::Event<DynamicObject>>. *)
(***************************************************************************)
Applied(object) == [event |-> "Applied", objects |-> <<object>>]
Deleted(object) == [event |-> "Deleted", objects |-> <<object>>]
Restarted(objects) == [event |-> "Restarted", objects |-> objects]
WatcherError == [event |-> "Error", objects |-> << >>]

Tuples(S, n) == UNION {[1..k -> S] : k \in 0..n}

VARIABLES
    call,           \* match_state applied on its own: filter, state, result
    args,           \* Args::parse()
    catalog,        \* what discovery returns: the recommended resources
    input,          \* what read_state_filter yields: Ok(value) or Err
    pc,             \* the statement main is at
    state_filter,   \* main's state_filter
    found,          \* main's found
    api,            \* the Api<DynamicObject> main builds, an Option
    stream,         \* the watcher stream: "none", "open", "finished", "dropped"
    timer,          \* time::timeout: "none", "armed", "elapsed", "dropped"
    consumed,       \* the items stream.next() has yielded
    found_state,    \* main's found_state, an Option
    stdout,         \* what println! has written
    outcome         \* how main ended, "running" before

vars == <<call, args, catalog, input, pc, state_filter, found, api, stream, timer,
          consumed, found_state, stdout, outcome>>

mainVars == <<args, catalog, input, pc, state_filter, found, api, stream, timer,
              consumed, found_state, stdout, outcome>>

NoCall == [pc |-> "idle", filter |-> Num(1), state |-> Num(1), ret |-> FALSE]

(***************************************************************************)
(* main (main.rs:181-237), one action per statement.                       *)
(***************************************************************************)
InitMain(argsSet, catalogs, inputs) ==
    /\ args \in argsSet
    /\ catalog \in catalogs
    /\ input \in inputs
    /\ pc = "read_state_filter"
    /\ state_filter = None
    /\ found = << >>
    /\ api = None
    /\ stream = "none"
    /\ timer = "none"
    /\ consumed = << >>
    /\ found_state = None
    /\ stdout = << >>
    /\ outcome = "running"

Fail(error) ==
    /\ pc' = "done"
    /\ outcome' = error

\* main.rs:184-186 and read_state_filter (main.rs:92-108)
ReadStateFilter ==
    /\ pc = "read_state_filter"
    /\ IF IsOk(input)
       THEN /\ state_filter' = Some(input[2])
            /\ pc' = "discover"
            /\ UNCHANGED outcome
       ELSE /\ Fail("InputError")
            /\ UNCHANGED state_filter
    /\ UNCHANGED <<call, args, catalog, input, found, api, stream, timer, consumed, found_state, stdout>>

\* main.rs:188-195
Discover ==
    /\ pc = "discover"
    /\ found' = Filter(catalog, args)
    /\ pc' = "ensure"
    /\ UNCHANGED <<call, args, catalog, input, state_filter, api, stream, timer, consumed,
                   found_state, stdout, outcome>>

\* main.rs:188-189: the client or the discovery fails
DiscoverFails ==
    /\ pc = "discover"
    /\ Fail("ClientError")
    /\ UNCHANGED <<call, args, catalog, input, state_filter, found, api, stream, timer,
                   consumed, found_state, stdout>>

\* a resolution without the second ensure!: the first of several is taken
EnsureFirst ==
    /\ pc = "ensure"
    /\ IF found = << >>
       THEN Fail("NotFound") /\ UNCHANGED api
       ELSE /\ api' = Some([resource |-> found[1],
                            namespace |-> IF found[1].scope = "Cluster" THEN None
                                          ELSE IF args.namespace # None THEN args.namespace
                                          ELSE Some("default")])
            /\ pc' = "watch"
            /\ UNCHANGED outcome
    /\ UNCHANGED <<call, args, catalog, input, state_filter, found, stream, timer,
                   consumed, found_state, stdout>>

\* main.rs:197-219
Ensure ==
    /\ pc = "ensure"
    /\ IF found = << >>
       THEN Fail("NotFound") /\ UNCHANGED api
       ELSE IF Len(found) # 1
       THEN Fail("Ambiguous") /\ UNCHANGED api
       ELSE /\ api' = Some([resource |-> found[1],
                            namespace |-> IF found[1].scope = "Cluster" THEN None
                                          ELSE IF args.namespace # None THEN args.namespace
                                          ELSE Some("default")])
            /\ pc' = "watch"
            /\ UNCHANGED outcome
    /\ UNCHANGED <<call, args, catalog, input, state_filter, found, stream, timer,
                   consumed, found_state, stdout>>


\* a watch that is given a timeout whether or not the user asked for one
StartWatchWithTimeout ==
    /\ pc = "watch"
    /\ stream' = "open"
    /\ timer' = "armed"
    /\ pc' = "next"
    /\ UNCHANGED <<call, args, catalog, input, state_filter, found, api, consumed,
                   found_state, stdout, outcome>>

\* main.rs:221-228 and watch_for_condition_met up to the loop (main.rs:141-146)
StartWatch ==
    /\ pc = "watch"
    /\ stream' = "open"
    /\ timer' = IF args.timeout # None THEN "armed" ELSE "none"
    /\ pc' = "next"
    /\ UNCHANGED <<call, args, catalog, input, state_filter, found, api, consumed,
                   found_state, stdout, outcome>>

(***************************************************************************)
(* watch_for_condition_met (main.rs:136-178): one action per arm of the    *)
(* match on the item stream.next() yields, one for the end of the stream.  *)
(***************************************************************************)
Awaiting ==
    /\ pc = "next"
    /\ stream = "open"

\* the objects the watcher may deliver: those of the resolved resource that
\* the field selector metadata.name={name} lets through (main.rs:141-144)
Watched == Objects(Unwrap(api).resource, args.name)

\* a match that is recorded while the loop goes on with the next item
ReturnAndGoOn(serialized) ==
    /\ found_state' = Some(serialized)
    /\ UNCHANGED <<stream, timer, pc>>

\* return Ok(serialized) (main.rs:153, 164), then main.rs:229
Return(serialized) ==
    /\ found_state' = Some(serialized)
    /\ stream' = "dropped"
    /\ timer' = IF timer = "armed" THEN "dropped" ELSE timer
    /\ pc' = "print"

Continue ==
    /\ UNCHANGED <<found_state, stream, timer, pc>>

RECURSIVE FirstMatch(_, _)

\* a loop over states that keeps the last match instead of returning the first
LastMatch(filter, states) ==
    IF states = << >> THEN None
    ELSE LET serialized == object_to_value(Head(states))
             later == FirstMatch(filter, Tail(states))
         IN  IF later # None THEN later
             ELSE IF match_state(filter, serialized) THEN Some(serialized)
             ELSE None

\* the for loop over states (main.rs:160-166): what it returns, if it does
FirstMatch(filter, states) ==
    IF states = << >> THEN None
    ELSE LET serialized == object_to_value(Head(states))
         IN  IF match_state(filter, serialized) THEN Some(serialized)
             ELSE FirstMatch(filter, Tail(states))

RECURSIVE watch_for_condition_met(_, _)
\* the while loop run on the items a stream yields before it ends
\* (main.rs:147-177): the state it returns, None where it bails
watch_for_condition_met(filter, items) ==
    IF items = << >> THEN None
    ELSE LET item == Head(items)
         IN  IF item.event = "Applied"
             THEN LET serialized == object_to_value(item.objects[1])
                  IN  IF match_state(filter, serialized) THEN Some(serialized)
                      ELSE watch_for_condition_met(filter, Tail(items))
             ELSE IF item.event = "Deleted"
             THEN watch_for_condition_met(filter, Tail(items))
             ELSE IF item.event = "Restarted"
             THEN LET first == FirstMatch(filter, item.objects)
                  IN  IF first # None THEN first
                      ELSE watch_for_condition_met(filter, Tail(items))
             ELSE watch_for_condition_met(filter, Tail(items))

\* an Applied arm that returns the state without asking match_state
NextAppliedUnchecked ==
    /\ Awaiting
    /\ Len(consumed) < MaxEvents
    /\ \E state \in Watched :
        /\ consumed' = Append(consumed, Applied(state))
        /\ Return(object_to_value(state))
    /\ UNCHANGED <<call, args, catalog, input, state_filter, found, api, stdout, outcome>>

\* main.rs:149-155
NextApplied ==
    /\ Awaiting
    /\ Len(consumed) < MaxEvents
    /\ \E state \in Watched :
        /\ consumed' = Append(consumed, Applied(state))
        /\ LET serialized == object_to_value(state)
           IN  IF match_state(Unwrap(state_filter), serialized)
               THEN Return(serialized)
               ELSE Continue
    /\ UNCHANGED <<call, args, catalog, input, state_filter, found, api, stdout, outcome>>

\* a Deleted arm that checks the deleted object as the Applied arm does
NextDeletedAsApplied ==
    /\ Awaiting
    /\ Len(consumed) < MaxEvents
    /\ \E state \in Watched :
        /\ consumed' = Append(consumed, Deleted(state))
        /\ LET serialized == object_to_value(state)
           IN  IF match_state(Unwrap(state_filter), serialized)
               THEN Return(serialized)
               ELSE Continue
    /\ UNCHANGED <<call, args, catalog, input, state_filter, found, api, stdout, outcome>>

\* main.rs:157
NextDeleted ==
    /\ Awaiting
    /\ Len(consumed) < MaxEvents
    /\ \E state \in Watched :
        consumed' = Append(consumed, Deleted(state))
    /\ Continue
    /\ UNCHANGED <<call, args, catalog, input, state_filter, found, api, stdout, outcome>>

\* a Restarted arm that ignores the states, as the Deleted arm does
NextRestartedIgnored ==
    /\ Awaiting
    /\ Len(consumed) < MaxEvents
    /\ \E states \in Tuples(Watched, MaxRestarted) :
        consumed' = Append(consumed, Restarted(states))
    /\ Continue
    /\ UNCHANGED <<call, args, catalog, input, state_filter, found, api, stdout, outcome>>

\* main.rs:159-167
NextRestarted ==
    /\ Awaiting
    /\ Len(consumed) < MaxEvents
    /\ \E states \in Tuples(Watched, MaxRestarted) :
        /\ consumed' = Append(consumed, Restarted(states))
        /\ LET first == FirstMatch(Unwrap(state_filter), states)
           IN  IF first # None
               THEN Return(Unwrap(first))
               ELSE Continue
    /\ UNCHANGED <<call, args, catalog, input, state_filter, found, api, stdout, outcome>>

\* an Err arm that gives the error to the caller
NextErrorReturned ==
    /\ Awaiting
    /\ Len(consumed) < MaxEvents
    /\ consumed' = Append(consumed, WatcherError)
    /\ stream' = "dropped"
    /\ timer' = IF timer = "armed" THEN "dropped" ELSE timer
    /\ Fail("WatcherError")
    /\ UNCHANGED <<call, args, catalog, input, state_filter, found, api, found_state, stdout>>

\* main.rs:169-173
NextError ==
    /\ Awaiting
    /\ Len(consumed) < MaxEvents
    /\ consumed' = Append(consumed, WatcherError)
    /\ Continue
    /\ UNCHANGED <<call, args, catalog, input, state_filter, found, api, stdout, outcome>>

\* the watcher stream ends: its next item is None
StreamCloses ==
    /\ Awaiting
    /\ stream' = "finished"
    /\ UNCHANGED <<call, args, catalog, input, pc, state_filter, found, api, timer, consumed,
                   found_state, stdout, outcome>>

\* a loop that, left by the end of the stream, lets main end without an error
StreamFinishedQuietly ==
    /\ pc = "next"
    /\ stream = "finished"
    /\ stream' = "dropped"
    /\ timer' = IF timer = "armed" THEN "dropped" ELSE timer
    /\ pc' = "done"
    /\ outcome' = "Success"
    /\ UNCHANGED <<call, args, catalog, input, state_filter, found, api, consumed,
                   found_state, stdout>>

\* stream.next() yields None: main.rs:147, 177, then main.rs:227-228
StreamFinished ==
    /\ pc = "next"
    /\ stream = "finished"
    /\ stream' = "dropped"
    /\ timer' = IF timer = "armed" THEN "dropped" ELSE timer
    /\ Fail("StreamEnded")
    /\ UNCHANGED <<call, args, catalog, input, state_filter, found, api, consumed,
                   found_state, stdout>>

\* an elapsed timeout whose error is dropped: the loop goes on
TimeoutExpiredIgnored ==
    /\ Awaiting
    /\ timer = "armed"
    /\ timer' = "elapsed"
    /\ UNCHANGED <<call, args, catalog, input, pc, state_filter, found, api, stream, consumed,
                   found_state, stdout, outcome>>

\* an elapsed timeout that fails main while the watcher stream stays alive
TimeoutExpiredStreamKept ==
    /\ Awaiting
    /\ timer = "armed"
    /\ timer' = "elapsed"
    /\ Fail("Timeout")
    /\ UNCHANGED <<call, args, catalog, input, state_filter, found, api, stream, consumed,
                   found_state, stdout>>

\* a timer that is not cancelled when the loop has returned its state
TimeoutExpiredAfterReturn ==
    /\ pc \in {"next", "print"}
    /\ timer \in {"armed", "dropped"}
    /\ timer' = "elapsed"
    /\ stream' = "dropped"
    /\ Fail("Timeout")
    /\ UNCHANGED <<call, args, catalog, input, state_filter, found, api, consumed,
                   found_state, stdout>>

\* time::timeout yields Err(Elapsed) while the loop awaits (main.rs:222-227)
TimeoutExpired ==
    /\ Awaiting
    /\ timer = "armed"
    /\ timer' = "elapsed"
    /\ stream' = "dropped"
    /\ Fail("Timeout")
    /\ UNCHANGED <<call, args, catalog, input, state_filter, found, api, consumed,
                   found_state, stdout>>

(***************************************************************************)
(* serde_yaml::to_string (main.rs:231): the document as a sequence of      *)
(* tokens.                                                                 *)
(***************************************************************************)
RECURSIVE to_string(_), EntriesToString(_, _), ElementsToString(_)
EntriesToString(f, K) ==
    IF K = {} THEN << >>
    ELSE LET k == CHOOSE x \in K : TRUE
         IN  <<k, ":">> \o to_string(f[k]) \o <<",">> \o EntriesToString(f, K \ {k})
ElementsToString(s) ==
    IF s = << >> THEN << >>
    ELSE <<"-">> \o to_string(Head(s)) \o <<",">> \o ElementsToString(Tail(s))
to_string(value) ==
    IF value.t = "map" THEN <<"{">> \o EntriesToString(value.v, DOMAIN value.v) \o <<"}">>
    ELSE IF value.t = "seq" THEN <<"[">> \o ElementsToString(value.v) \o <<"]">>
    ELSE IF value.t = "num" THEN <<ToString(value.v)>>
    ELSE <<"'", value.v, "'">>

\* a print that writes the metadata of the state only
PrintFoundStatePartly ==
    /\ pc = "print"
    /\ stdout' = Append(stdout, to_string(Unwrap(found_state).v["metadata"]))
    /\ pc' = "done"
    /\ outcome' = "Success"
    /\ UNCHANGED <<call, args, catalog, input, state_filter, found, api, stream, timer,
                   consumed, found_state>>

\* main.rs:231-236
PrintFoundState ==
    /\ pc = "print"
    /\ stdout' = Append(stdout, to_string(Unwrap(found_state)))
    /\ pc' = "done"
    /\ outcome' = "Success"
    /\ UNCHANGED <<call, args, catalog, input, state_filter, found, api, stream, timer,
                   consumed, found_state>>

\* the filters main is run on: the conditions on the data of the objects,
\* the filter every object matches and a filter no object matches
MainFilters ==
    {Mapping(d) : d \in ObjectData}
    \cup {Mapping(<< >>), Mapping("status" :> Str("1"))}

Inputs == {Ok(v) : v \in MainFilters} \cup {Err("failed to deserialize state filter")}

Init ==
    /\ call = NoCall
    /\ InitMain(MainArgs, {AllResources}, Inputs)

Next ==
    \/ ReadStateFilter
    \/ Discover
    \/ DiscoverFails
    \/ Ensure
    \/ StartWatch
    \/ NextApplied
    \/ NextDeleted
    \/ NextRestarted
    \/ NextError
    \/ StreamCloses
    \/ StreamFinished
    \/ TimeoutExpired
    \/ PrintFoundState

Spec == Init /\ [][Next]_vars

(***************************************************************************)
(* main over every command line of ResolveArgs and every catalog, with the *)
(* filter that every state matches.                                        *)
(***************************************************************************)
InitResolve ==
    /\ call = NoCall
    /\ InitMain(ResolveArgs, Catalogs, {Ok(Mapping(<< >>))})

ResolveSpec == InitResolve /\ [][Next]_vars

(***************************************************************************)
(* match_state applied to one filter and one state.                        *)
(***************************************************************************)
InitMatch ==
    /\ \E f \in Values(MaxFilterNodes), s \in Values(MaxStateNodes) :
        call = [pc |-> "called", filter |-> f, state |-> s, ret |-> FALSE]
    /\ InitMain({CHOOSE a \in MainArgs : TRUE}, {AllResources}, {Ok(Mapping(<< >>))})

CallMatchState ==
    /\ call.pc = "called"
    /\ call' = [call EXCEPT !.pc = "returned", !.ret = match_state(call.filter, call.state)]
    /\ UNCHANGED mainVars

NextMatch == CallMatchState

MatchSpec == InitMatch /\ [][NextMatch]_vars

(***************************************************************************)
(* The runtime resumes main once watch_for_condition_met has returned, and *)
(* polls the loop once the stream has its next item, the end included.     *)
(***************************************************************************)
LiveSpec == Spec /\ WF_vars(PrintFoundState) /\ WF_vars(StreamFinished)

(***************************************************************************)
(* Properties.                                                             *)
(***************************************************************************)
RECURSIVE DeliveredStates(_)
\* the serialized states of the Applied and Restarted items, in delivery order
DeliveredStates(items) ==
    IF items = << >> THEN << >>
    ELSE LET item == Head(items)
         IN  (IF item.event \in {"Applied", "Restarted"}
              THEN [j \in DOMAIN item.objects |-> object_to_value(item.objects[j])]
              ELSE << >>)
             \o DeliveredStates(Tail(items))

Matching(states) ==
    {i \in DOMAIN states : match_state(Unwrap(state_filter), states[i])}

FirstMatching(states) ==
    CHOOSE i \in Matching(states) : \A j \in Matching(states) : i <= j

Last(s) == s[Len(s)]

\* C1: whenever the watch loop returns a state, that state is the payload of
\* a consumed Applied item or an element of a consumed Restarted item, and
\* it satisfies the filter; success is never reported without such a state.
C1_ReturnedStateWasDeliveredAndMatches ==
    /\ found_state # None =>
        /\ \E i \in DOMAIN consumed :
            /\ consumed[i].event \in {"Applied", "Restarted"}
            /\ \E j \in DOMAIN consumed[i].objects :
                object_to_value(consumed[i].objects[j]) = Unwrap(found_state)
        /\ match_state(Unwrap(state_filter), Unwrap(found_state))
    /\ outcome = "Success" => found_state # None

C1_Witness ==
    /\ outcome = "Success"
    /\ found_state # None
    /\ Len(consumed) = MaxEvents
    /\ consumed[1].event = "Deleted"
    /\ consumed[2].event = "Applied"

\* C2: the state the loop returns is the first matching state in delivery
\* order (the states of a Restarted item in list order), the loop has returned
\* nothing while no delivered state matches, and a Restarted item without a
\* matching state leaves the loop consuming.
C2_StateInv ==
    state_filter # None =>
        LET states == DeliveredStates(consumed)
        IN  IF Matching(states) # {}
            THEN found_state = Some(states[FirstMatching(states)])
            ELSE found_state = None

C2_RestartedStep ==
    (/\ consumed' # consumed
     /\ Last(consumed').event = "Restarted"
     /\ \A j \in DOMAIN Last(consumed').objects :
            ~match_state(Unwrap(state_filter), object_to_value(Last(consumed').objects[j])))
    => (pc' = "next" /\ stream' = "open" /\ outcome' = "running")

C2_FirstMatchInDeliveryOrder == [](C2_StateInv) /\ [][C2_RestartedStep]_vars

C2_Witness ==
    /\ consumed # << >>
    /\ Last(consumed).event = "Restarted"
    /\ Len(Last(consumed).objects) = 2
    /\ ~match_state(Unwrap(state_filter), object_to_value(Last(consumed).objects[1]))
    /\ found_state = Some(object_to_value(Last(consumed).objects[2]))

\* C3: consuming an error item leaves the loop consuming, with no result and
\* no outcome, and a loop that ended without a state ended with StreamEnded
\* or Timeout.
C3_ErrorStep ==
    (consumed' # consumed /\ Last(consumed').event = "Error")
    => (/\ pc' = "next"
        /\ stream' = "open"
        /\ outcome' = "running"
        /\ found_state' = None
        /\ stdout' = stdout)

C3_LoopFailures ==
    (stream = "dropped" /\ found_state = None) => outcome \in {"StreamEnded", "Timeout"}

C3_ErrorNeverTerminates == [][C3_ErrorStep]_vars /\ [](C3_LoopFailures)

C3_Witness ==
    /\ Len(consumed) = MaxEvents
    /\ \A i \in DOMAIN consumed : consumed[i].event = "Error"
    /\ pc = "next"
    /\ stream = "open"

\* C4: once the stream has delivered a matching state (after any errors,
\* Deleted items and non-matching states the timeout did not interrupt), main
\* eventually ends in Success with the first such state.
C4_Delivered ==
    /\ state_filter # None
    /\ Matching(DeliveredStates(consumed)) # {}

C4_Succeeded ==
    /\ outcome = "Success"
    /\ LET states == DeliveredStates(consumed)
       IN  found_state = Some(states[FirstMatching(states)])

C4_MatchEventuallySucceeds == C4_Delivered ~> C4_Succeeded

C4_Witness ==
    /\ Len(consumed) = MaxEvents
    /\ consumed[1].event = "Error"
    /\ consumed[2].event \in {"Deleted", "Applied"}
    /\ outcome = "Success"
    /\ args.timeout = None

\* C5: once time::timeout has elapsed, main has ended with Timeout, no state
\* was found or printed, no delivered state matched, the stream is dropped
\* and no further item is consumed.
C5_Elapsed ==
    timer = "elapsed" =>
        /\ outcome = "Timeout"
        /\ pc = "done"
        /\ found_state = None
        /\ stdout = << >>
        /\ stream = "dropped"
        /\ Matching(DeliveredStates(consumed)) = {}

C5_ElapsedStep ==
    timer = "elapsed" => (consumed' = consumed /\ stdout' = stdout /\ outcome' = outcome)

C5_TimeoutFails == [](C5_Elapsed) /\ [][C5_ElapsedStep]_vars

C5_Witness ==
    /\ timer = "elapsed"
    /\ outcome = "Timeout"
    /\ Len(consumed) >= 2
    /\ \E i \in DOMAIN consumed : consumed[i].event = "Applied"

\* C6: after resolution the outcome is NotFound iff no catalog entry is
\* accepted, Ambiguous iff two or more are, and the accepted entry is the
\* resolved resource iff exactly one is; on NotFound and Ambiguous no stream
\* was opened, nothing was consumed and nothing was printed.
Accepted == {i \in DOMAIN catalog : filter_resource(args, catalog[i])}

Resolved ==
    /\ pc \notin {"read_state_filter", "discover", "ensure"}
    /\ outcome \notin {"InputError", "ClientError"}

C6_ThreeOutcomes ==
    Resolved =>
        /\ (Cardinality(Accepted) = 0) = (outcome = "NotFound")
        /\ (Cardinality(Accepted) >= 2) = (outcome = "Ambiguous")
        /\ (Cardinality(Accepted) = 1) = (api # None)
        /\ api # None => \A i \in Accepted : Unwrap(api).resource = catalog[i]
        /\ outcome \in {"NotFound", "Ambiguous"} =>
            /\ pc = "done"
            /\ stream = "none"
            /\ consumed = << >>
            /\ found_state = None
            /\ stdout = << >>

C6_Witness ==
    /\ outcome = "Ambiguous"
    /\ Cardinality(Accepted) = 2
    /\ args.plural = None

\* C7: the resolved resource has the kind of the criteria and, for each of
\* group, group-version, api-version and plural the user set, the attribute
\* of that name (group, version, api_version, plural) equal to it.
C7_ResolvedSatisfiesCriteria ==
    api # None =>
        LET api_resource == Unwrap(api).resource
        IN  /\ api_resource.kind = args.kind
            /\ args.group # None => api_resource.group = Unwrap(args.group)
            /\ args.group_version # None => api_resource.version = Unwrap(args.group_version)
            /\ args.api_version # None => api_resource.api_version = Unwrap(args.api_version)
            /\ args.plural # None => api_resource.plural = Unwrap(args.plural)

\* C8: on two mappings match_state is true iff every key of the filter is a
\* key of the state whose value matches recursively; a key of the filter
\* the state lacks makes it false, the keys only the state has do not change
\* it, and the filter without keys matches.
BothMappings == call.filter.t = "map" /\ call.state.t = "map"
BothSequences == call.filter.t = "seq" /\ call.state.t = "seq"

C8_MappingSubset ==
    (call.pc = "returned" /\ BothMappings) =>
        LET f == call.filter.v
            s == call.state.v
            common == DOMAIN f \cap DOMAIN s
        IN  /\ call.ret = \A k \in DOMAIN f : k \in DOMAIN s /\ match_state(f[k], s[k])
            /\ DOMAIN f \ DOMAIN s # {} => call.ret = FALSE
            /\ call.ret = match_state(call.filter, Mapping([k \in common |-> s[k]]))
            /\ DOMAIN f = {} => call.ret = TRUE

C8_Witness ==
    /\ call.pc = "returned"
    /\ BothMappings
    /\ DOMAIN call.filter.v # {}
    /\ DOMAIN call.state.v \ DOMAIN call.filter.v # {}
    /\ \E k \in DOMAIN call.filter.v : call.filter.v[k].t = "map"
    /\ call.ret = TRUE

\* C9: on two sequences match_state is true iff every element of the filter
\* matches every element of the state.
C9_AllAgainstAll ==
    (call.pc = "returned" /\ BothSequences) =>
        call.ret = \A i \in DOMAIN call.filter.v : \A j \in DOMAIN call.state.v :
                        match_state(call.filter.v[i], call.state.v[j])

C9_Witness ==
    /\ call.pc = "returned"
    /\ BothSequences
    /\ Len(call.filter.v) = 1
    /\ Len(call.state.v) = 2
    /\ match_state(call.filter.v[1], call.state.v[1])
    /\ ~match_state(call.filter.v[1], call.state.v[2])
    /\ call.ret = FALSE

\* C10: on a filter and a state that are not two mappings and not two
\* sequences match_state is true iff the two values are equal; a mapping, a
\* sequence and a scalar never match one another.
Kind(value) == IF value.t \in {"map", "seq"} THEN value.t ELSE "scalar"

C10_OtherwiseEqual ==
    (call.pc = "returned" /\ ~BothMappings /\ ~BothSequences) =>
        /\ call.ret = (call.filter = call.state)
        /\ Kind(call.filter) # Kind(call.state) => call.ret = FALSE

C10_Witness ==
    /\ call.pc = "returned"
    /\ call.filter = Str("1")
    /\ call.state = Num(1)
    /\ call.ret = FALSE

\* C11: a stream that ended before any delivered state matched makes the
\* loop fail with StreamEnded: at the end of the stream nothing was found,
\* main then ends with StreamEnded (it does not stay at the await), and
\* StreamEnded is never reported with a state found or printed.
C11_Finished ==
    stream = "finished" =>
        /\ found_state = None
        /\ outcome = "running"
        /\ Matching(DeliveredStates(consumed)) = {}

C11_StreamEnded ==
    outcome = "StreamEnded" =>
        /\ pc = "done"
        /\ found_state = None
        /\ stdout = << >>
        /\ stream = "dropped"

C11_FinishedStep ==
    stream = "finished" => (outcome' = "StreamEnded" /\ consumed' = consumed)

C11_ExhaustedFailsWithStreamEnded ==
    /\ [](C11_Finished /\ C11_StreamEnded)
    /\ [][C11_FinishedStep]_vars
    /\ (stream = "finished") ~> (outcome = "StreamEnded")

C11_Witness ==
    /\ outcome = "StreamEnded"
    /\ Len(consumed) = MaxEvents
    /\ \E i \in DOMAIN consumed : consumed[i].event = "Applied"
    /\ \E i \in DOMAIN consumed : consumed[i].event = "Restarted" /\ consumed[i].objects # << >>


\* C12: something is printed iff main ended in Success, and then exactly one
\* document, the whole state the loop returned (the first delivered state
\* that matches); on every failure nothing is printed.
C12_Failures == {"InputError", "ClientError", "NotFound", "Ambiguous", "StreamEnded", "Timeout"}

C12_AllOrNothing ==
    /\ (stdout # << >>) = (outcome = "Success")
    /\ outcome = "Success" =>
        LET states == DeliveredStates(consumed)
        IN  /\ found_state # None
            /\ stdout = <<to_string(Unwrap(found_state))>>
            /\ stdout = <<to_string(states[FirstMatching(states)])>>
    /\ pc = "done" => outcome \in C12_Failures \cup {"Success"}
    /\ outcome \in C12_Failures => (pc = "done" /\ stdout = << >>)

C12_Witness ==
    /\ outcome = "Success"
    /\ Len(stdout) = 1
    /\ Len(consumed) >= 2
    /\ Last(consumed).event = "Restarted"


\* C13: the item that holds the match is the last item the loop consumes:
\* once a state is found the stream is dropped, and no step consumes another
\* item or changes the state found.
C13_Stopped ==
    found_state # None =>
        /\ stream = "dropped"
        /\ pc \in {"print", "done"}
        /\ Last(consumed).event \in {"Applied", "Restarted"}
        /\ \E j \in DOMAIN Last(consumed).objects :
            /\ object_to_value(Last(consumed).objects[j]) = Unwrap(found_state)
            /\ match_state(Unwrap(state_filter), Unwrap(found_state))

C13_FoundStep ==
    found_state # None => (consumed' = consumed /\ found_state' = found_state)

C13_NothingConsumedAfterMatch == [](C13_Stopped) /\ [][C13_FoundStep]_vars

C13_Witness ==
    /\ Len(consumed) = 3
    /\ consumed[1].event = "Deleted"
    /\ consumed[2].event = "Applied"
    /\ ~match_state(Unwrap(state_filter), object_to_value(consumed[2].objects[1]))
    /\ consumed[3].event = "Applied"
    /\ found_state = Some(object_to_value(consumed[3].objects[1]))
    /\ outcome = "Success"


\* C14: without --timeout there is no timer and main never ends with
\* Timeout; the loop then leaves its await only with a state found or at the
\* end of the stream, and consuming an item after which no delivered state
\* matches leaves it awaiting on the open stream.
C14_NoTimer ==
    args.timeout = None => (timer = "none" /\ outcome # "Timeout")

C14_LeaveStep ==
    (args.timeout = None /\ pc = "next" /\ pc' # "next")
    => (found_state' # None \/ stream = "finished")

C14_ConsumeStep ==
    (consumed' # consumed /\ Matching(DeliveredStates(consumed')) = {})
    => (pc' = "next" /\ stream' = "open" /\ outcome' = "running" /\ found_state' = None)

C14_NoDeadlineKeepsConsuming ==
    [](C14_NoTimer) /\ [][C14_LeaveStep]_vars /\ [][C14_ConsumeStep]_vars

C14_Witness ==
    /\ args.timeout = None
    /\ Len(consumed) = MaxEvents
    /\ \E i \in DOMAIN consumed : consumed[i].event = "Applied"
    /\ \E i \in DOMAIN consumed : consumed[i].event = "Deleted"
    /\ \E i \in DOMAIN consumed : consumed[i].event = "Error"
    /\ pc = "next"
    /\ stream = "open"
    /\ outcome = "running"


\* C15: a field the user did not set is a wildcard.  With only the kind set,
\* the descriptors found are exactly those of the catalog whose kind is the
\* kind asked for, in catalog order; and every descriptor found under some
\* criteria is also accepted when any one of the set fields is unset.
C15_Optional == {"group", "group_version", "api_version", "plural"}

C15_OnlyKind == \A f \in C15_Optional : args[f] = None

C15_SameKind(api_resource) == api_resource.kind = args.kind

C15_Discovered ==
    /\ pc \notin {"read_state_filter", "discover"}
    /\ outcome \notin {"InputError", "ClientError"}

C15_UnsetIsWildcard ==
    C15_Discovered =>
        /\ C15_OnlyKind => found = SelectSeq(catalog, C15_SameKind)
        /\ \A f \in C15_Optional :
              LET weaker == [args EXCEPT ![f] = None]
              IN  /\ \A i \in DOMAIN found : filter_resource(weaker, found[i])
                  /\ Len(found) <= Len(Filter(catalog, weaker))

C15_Witness ==
    /\ C15_Discovered
    /\ C15_OnlyKind
    /\ Len(catalog) = Len(AllResources)
    /\ Len(found) = 2
    /\ found[1].group # found[2].group
    /\ found[1].api_version # found[2].api_version


\* C16: the watcher stream lives only while the loop runs.  It is alive
\* exactly while the loop awaits an item, it exists only after resolution
\* produced the api of the one resource found, it is dropped in every final
\* state the loop was started in (Success, StreamEnded, Timeout), and a
\* dropped stream stays dropped.
C16_LoopOutcomes == {"Success", "StreamEnded", "Timeout"}

C16_Released ==
    /\ (stream \in {"open", "finished"}) = (pc = "next")
    /\ stream # "none" => (api # None /\ Len(found) = 1)
    /\ outcome \in C16_LoopOutcomes => stream = "dropped"
    /\ pc \in {"print", "done"} => stream \in {"none", "dropped"}
    /\ (pc = "done" /\ stream = "none") => outcome \notin C16_LoopOutcomes

C16_DroppedStep == stream = "dropped" => stream' = "dropped"

C16_StreamReleasedOnEveryExit == [](C16_Released) /\ [][C16_DroppedStep]_vars

C16_Witness ==
    /\ outcome = "Timeout"
    /\ stream = "dropped"
    /\ pc = "done"
    /\ consumed # << >>


\* C17: the timer and the loop race with one winner.  The outcome is Timeout
\* exactly when the timer elapsed; a loop that completed, with a state or
\* with StreamEnded, has cancelled the timer, so a state found and a Timeout
\* never occur together; and an outcome, once produced, never changes.
C17_LoopCompleted == found_state # None \/ outcome = "StreamEnded"

C17_Race ==
    /\ (outcome = "Timeout") = (timer = "elapsed")
    /\ C17_LoopCompleted =>
          /\ outcome \in {"running", "Success", "StreamEnded"}
          /\ timer = (IF args.timeout # None THEN "dropped" ELSE "none")
    /\ outcome = "Timeout" => (found_state = None /\ stdout = << >>)

C17_FinalStep ==
    /\ outcome # "running" => outcome' = outcome
    /\ C17_LoopCompleted => (C17_LoopCompleted' /\ found_state' = found_state /\ timer' = timer)

C17_ExactlyOneWinner == [](C17_Race) /\ [][C17_FinalStep]_vars

C17_Witness ==
    /\ args.timeout # None
    /\ outcome = "Success"
    /\ found_state # None
    /\ timer = "dropped"
    /\ consumed # << >>


\* C18: a Deleted item is ignored.  Consuming one leaves the loop awaiting
\* with no state found, whatever object it carries; and what the loop has
\* found after any items is what the loop finds on the same items with every
\* Deleted item removed: the same state, or none (StreamEnded at the end).
C18_RemoveDeleted(items) == SelectSeq(items, LAMBDA item : item.event # "Deleted")

C18_SameWithoutDeleted ==
    state_filter # None =>
        /\ found_state = watch_for_condition_met(Unwrap(state_filter), consumed)
        /\ found_state = watch_for_condition_met(Unwrap(state_filter),
                                                 C18_RemoveDeleted(consumed))
        /\ outcome = "StreamEnded" =>
              watch_for_condition_met(Unwrap(state_filter),
                                      C18_RemoveDeleted(consumed)) = None

C18_DeletedStep ==
    (consumed' # consumed /\ Last(consumed').event = "Deleted")
    => /\ pc' = "next"
       /\ found_state' = None
       /\ outcome' = "running"
       /\ UNCHANGED <<stream, timer, stdout>>

C18_DeletedIsIgnored == [](C18_SameWithoutDeleted) /\ [][C18_DeletedStep]_vars

C18_Witness ==
    /\ Len(consumed) >= 2
    /\ consumed[1].event = "Deleted"
    /\ match_state(Unwrap(state_filter), object_to_value(consumed[1].objects[1]))
    /\ found_state # None
    /\ found_state = Some(object_to_value(Last(consumed).objects[Len(Last(consumed).objects)]))
    /\ outcome = "Success"


\* C19: on two sequences match_state is true when either is empty, whatever
\* the elements of the other; hence a mapping whose values under the keys of
\* the filter are empty sequences matches a filter that has any sequences
\* under those keys.
C19_OneIsEmpty(f, s) ==
    /\ f.t = "seq"
    /\ s.t = "seq"
    /\ (f.v = << >> \/ s.v = << >>)

C19_EmptySequenceIsVacuous ==
    call.pc = "returned" =>
        /\ C19_OneIsEmpty(call.filter, call.state) => call.ret = TRUE
        /\ (/\ BothMappings
            /\ DOMAIN call.filter.v \subseteq DOMAIN call.state.v
            /\ \A k \in DOMAIN call.filter.v :
                  C19_OneIsEmpty(call.filter.v[k], call.state.v[k]))
           => call.ret = TRUE

C19_Witness ==
    /\ call.pc = "returned"
    /\ BothSequences
    /\ Len(call.filter.v) = 2
    /\ call.filter.v[1] # call.filter.v[2]
    /\ call.state.v = << >>
    /\ call.ret = TRUE

\* C20: a tree without sequence nodes, used as filter and as state, matches.
RECURSIVE C20_SequenceFree(_)
C20_SequenceFree(value) ==
    IF value.t = "seq" THEN FALSE
    ELSE IF value.t = "map" THEN \A k \in DOMAIN value.v : C20_SequenceFree(value.v[k])
    ELSE TRUE

C20_MatchesItself ==
    (call.pc = "returned" /\ call.filter = call.state /\ C20_SequenceFree(call.filter))
    => call.ret = TRUE

C20_Witness ==
    /\ call.pc = "returned"
    /\ call.filter = call.state
    /\ C20_SequenceFree(call.filter)
    /\ call.filter.t = "map"
    /\ \E k \in DOMAIN call.filter.v :
          call.filter.v[k].t = "map" /\ DOMAIN call.filter.v[k].v # {}
    /\ call.ret = TRUE

=============================================================================
